---- MODULE Spec2Model ----
(***************************************************************************)
(* Model of github-backup-tool: the reconciliation of a local clone with   *)
(* its remote (githubBackup/github_backup.py, class Git), the retention    *)
(* store (githubBackup/repository_db.py, class Tracker) and the cleanup    *)
(* sweeps (class GithubBackup).                                            *)
(*                                                                         *)
(* Strings are sequences of tokens, so that rsplit('/', 1)[-1], string     *)
(* concatenation, strftime and the `in` test are computed, not assumed.    *)
(* A foreign-key column of the store holds the text the caller passed: an  *)
(* INTEGER column of SQLite converts a numeric text to the integer and     *)
(* keeps any other text as text, which never equals an integer id in a     *)
(* join condition.  An integer id is compared by its decimal text.         *)
(***************************************************************************)
EXTENDS Integers, Sequences, FiniteSets, TLC

\* ------------------------------------------------------------------ bounds
NumCommits == 4
MaxTime == 1
MaxStoreTime == 2
TicksPerDay == 2
MaxRows == 2
MaxRuns == 3
MaxDays == 1
MaxLen == 3
MaxQuota == 2

\* ----------------------------------------------------------- configuration
Organizations == {"o1"}
Repos == {<<"o1", "/", "a">>, <<"o1", "/", "b">>}
GitRepo == <<"o1", "/", "a">>
OtherRepo == <<"o1", "/", "b">>
DefaultBranch == <<"main">>
RemoteBranchNames == {<<"dev">>, <<"main">>}
Commits == 1..NumCommits
NoCommit == 0
Times == 0..MaxTime

\* ----------------------------------------------------------------- strings
\* str.rsplit('/', 1)[-1]: the part after the last '/', the whole string when
\* there is none.
RECURSIVE RSplitLast(_)
RSplitLast(s) ==
    IF s = <<>> THEN <<>>
    ELSE IF \E i \in 1..Len(s) : s[i] = "/"
         THEN RSplitLast(Tail(s))
         ELSE s

\* str.rsplit('/', 1)[0]: the part before the last '/'.
RECURSIVE RSplitFirst(_)
RSplitFirst(s) ==
    IF s = <<>> THEN <<>>
    ELSE IF s[Len(s)] = "/" THEN SubSeq(s, 1, Len(s) - 1)
         ELSE IF \E i \in 1..Len(s) : s[i] = "/"
              THEN RSplitFirst(SubSeq(s, 1, Len(s) - 1))
              ELSE s

\* needle in haystack, for a one-token needle.
Contains(s, tok) == \E i \in 1..Len(s) : s[i] = tok

Digit(n) == <<"0", "1", "2", "3", "4", "5", "6", "7", "8", "9">>[(n % 10) + 1]

\* timestamp.strftime("%Y%m%d_%H%M%S"): a fixed-width date part, '_', a
\* fixed-width time-of-day part.  Time is counted in ticks, TicksPerDay to a
\* day.
Strftime(t) ==
    << Digit((t \div TicksPerDay) \div 10), Digit(t \div TicksPerDay), "_",
       Digit((t % TicksPerDay) \div 10), Digit(t % TicksPerDay) >>

\* str(repo.active_branch) + "_abandoned_" + timestamp.strftime(...)
AbandonedName(active, t) == active \o <<"_abandoned_">> \o Strftime(t)

\* the remote-tracking ref of a branch of the remote: "origin/<name>"
OriginRef(b) == <<"origin", "/">> \o b
HeadRef == <<"origin", "/", "HEAD">>

\* repo.remote().refs lists the refs sorted by path.
RefOrder ==
    << HeadRef, OriginRef(<<"bugfix", "/", "x">>), OriginRef(<<"dev">>),
       OriginRef(<<"feature", "/", "x">>), OriginRef(<<"main">>) >>

\* ---------------------------------------------------------------- durations
\* str.strip(ch): the string without its leading and trailing ch characters
RECURSIVE Strip(_, _)
Strip(s, ch) ==
    IF s = <<>> THEN s
    ELSE IF Head(s) = ch THEN Strip(Tail(s), ch)
    ELSE IF s[Len(s)] = ch THEN Strip(SubSeq(s, 1, Len(s) - 1), ch)
    ELSE s

IsDigit(ch) == \E n \in 0..9 : Digit(n) = ch

DigitValue(ch) == CHOOSE n \in 0..9 : Digit(n) = ch

RECURSIVE Decimal(_)
Decimal(s) == IF s = <<>> THEN 0 ELSE 10 * Decimal(SubSeq(s, 1, Len(s) - 1)) + DigitValue(s[Len(s)])

\* int(text): the value of a string of decimal digits; ValueError for the
\* empty string and for a string with a character that is no digit (the
\* strings of the model hold no sign, blank or underscore)
IntOf(s) ==
    IF s # <<>> /\ \A i \in 1..Len(s) : IsDigit(s[i])
    THEN [raised |-> FALSE, value |-> Decimal(s)]
    ELSE [raised |-> TRUE, value |-> 0]

\* int(...) * factor
IntTimes(r, factor) == [r EXCEPT !.value = @ * factor]

get_days_long_month(time_period) ==
    IF Contains(time_period, "d") THEN IntOf(Strip(time_period, "d"))
    ELSE IF Contains(time_period, "m") THEN IntTimes(IntOf(Strip(time_period, "m")), 31)
    ELSE IF Contains(time_period, "y") THEN IntTimes(IntOf(Strip(time_period, "y")), 365)
    ELSE [raised |-> FALSE, value |-> -1]

\* Configuration.get_days
get_days(time_period) ==
    IF Contains(time_period, "d") THEN IntOf(Strip(time_period, "d"))
    ELSE IF Contains(time_period, "m") THEN IntTimes(IntOf(Strip(time_period, "m")), 30)
    ELSE IF Contains(time_period, "y") THEN IntTimes(IntOf(Strip(time_period, "y")), 365)
    ELSE [raised |-> FALSE, value |-> -1]

\* ------------------------------------------------------------ commit graph
\* A fixed history: commit 1 is the root and every other commit is a child of
\* it, so that two distinct commits other than the root have diverged.
Parent(c) == IF c = 1 THEN NoCommit ELSE 1

RECURSIVE IsAncestor(_, _)
IsAncestor(a, b) ==
    IF b = NoCommit THEN FALSE
    ELSE IF a = b THEN TRUE
    ELSE IsAncestor(a, Parent(b))

Reachable(tips) == {c \in Commits : \E t \in tips : IsAncestor(c, t)}

Range(f) == {f[x] : x \in DOMAIN f}

SetMax(S) == CHOOSE m \in S : \A x \in S : x <= m

\* The elements of a set of records, as a sequence in the order of their ids.
RECURSIVE ById(_)
ById(S) ==
    IF S = {} THEN <<>>
    ELSE LET m == CHOOSE x \in S : \A y \in S : x.id <= y.id
         IN  <<m>> \o ById(S \ {m})

\* ------------------------------------------------------------------- store
\* The decimal text of an integer, as an INTEGER column compares it.
IntText(n) == IF n < 10 THEN <<Digit(n)>> ELSE <<Digit(n \div 10), Digit(n)>>

\* INTEGER PRIMARY KEY without AUTOINCREMENT: the largest id in use plus one.
NewId(table) == IF table = {} THEN 1 ELSE SetMax({x.id : x \in table}) + 1

\* timedelta(days = time_period)
Days(time_period) == time_period * TicksPerDay

EmptyDb == [organizations |-> {}, repositories |-> {}, branches |-> {}]

\* query(Repository).join(Organization, Organization.id == Repository.organization_id)
JoinedRepositories(d) ==
    {r \in d.repositories :
        \E o \in d.organizations : IntText(o.id) = r.organization_id}

\* query(Branch).join(Repository, Repository.id == Branch.repository_id)
JoinedBranches(d) ==
    {b \in d.branches :
        \E r \in d.repositories : IntText(r.id) = b.repository_id}

\* Branch.repository: the Repository row whose id is Branch.repository_id
RepositoryOf(d, b) ==
    CHOOSE r \in d.repositories : IntText(r.id) = b.repository_id

track_organization(d, organization, track) ==
    IF \E o \in d.organizations : o.name = organization
    THEN d
    ELSE [d EXCEPT !.organizations = @ \cup
            {[id |-> NewId(d.organizations), name |-> organization, track |-> track]}]

\* .first() is the row with the smallest id
get_organization_id(d, organization) ==
    LET recs == {o \in d.organizations : o.name = organization}
    IN  IntText((CHOOSE o \in recs : \A p \in recs : o.id <= p.id).id)

get_repository_id(d, repository) ==
    LET recs == {r \in d.repositories : r.name = repository}
    IN  IntText((CHOOSE r \in recs : \A p \in recs : r.id <= p.id).id)

track_repository(d, repository, organization_id, create_date, last_seen_in_github, track, t) ==
    LET records == {r \in JoinedRepositories(d) : r.name = repository}
    IN  IF records # {}
        THEN [d EXCEPT !.repositories =
                {IF r \in records THEN [r EXCEPT !.last_seen_in_github = t] ELSE r : r \in @}]
        ELSE [d EXCEPT !.repositories = @ \cup
                {[id |-> NewId(d.repositories), name |-> repository,
                  created_date |-> create_date, last_seen_in_github |-> create_date,
                  track |-> track, organization_id |-> organization_id]}]

update_repository(d, repository, organization, date, t) ==
    LET records == {r \in JoinedRepositories(d) : r.name = repository}
    IN  [d EXCEPT !.repositories =
            {IF r \in records THEN [r EXCEPT !.last_seen_in_github = t] ELSE r : r \in @}]

delete_all_branches_of_any(d, repository) ==
    [d EXCEPT !.branches = @ \ JoinedBranches(d)]

delete_all_branches(d, repository) ==
    LET records == {b \in JoinedBranches(d) : RepositoryOf(d, b).name = repository}
    IN  [d EXCEPT !.branches = @ \ records]

delete_repository(d, repository, organization) ==
    LET records == {r \in JoinedRepositories(d) : r.name = repository}
    IN  IF records # {}
        THEN [delete_all_branches(d, repository) EXCEPT !.repositories = @ \ records]
        ELSE d

get_repositories_older_than(d, time_period, t) ==
    LET ago == t - Days(time_period)
        records == {r \in JoinedRepositories(d) : r.last_seen_in_github <= ago}
        rows == ById(records)
    IN  [i \in 1..Len(rows) |-> rows[i].name]

track_branch(d, branch_name, repository_id, create_date, last_seen_in_github, abandoned, track, t) ==
    LET records == {b \in JoinedBranches(d) : b.name = branch_name}
    IN  IF records # {}
        THEN [d EXCEPT !.branches =
                {IF b \in records /\ ~b.abandoned
                 THEN [b EXCEPT !.last_seen_in_github = t] ELSE b : b \in @}]
        ELSE [d EXCEPT !.branches = @ \cup
                {[id |-> NewId(d.branches), name |-> branch_name,
                  repository_id |-> repository_id, created_date |-> create_date,
                  last_seen_in_github |-> create_date, abandoned |-> abandoned,
                  track |-> track]}]

update_branch(d, branch_name, repository_id, date, t) ==
    LET records == {b \in JoinedBranches(d) : b.name = branch_name}
    IN  IF records # {}
        THEN [d EXCEPT !.branches =
                {IF b \in records THEN [b EXCEPT !.last_seen_in_github = t] ELSE b : b \in @}]
        ELSE track_branch(d, branch_name, repository_id, t, t, FALSE, TRUE, t)

get_branches_older_than_strict(d, time_period, t) ==
    LET ago == t - Days(time_period)
        records == {b \in JoinedBranches(d) : b.last_seen_in_github < ago /\ ~b.abandoned}
        rows == ById(records)
    IN  [i \in 1..Len(rows) |-> <<rows[i].name, RepositoryOf(d, rows[i]).name>>]

get_branches_older_than(d, time_period, t) ==
    LET ago == t - Days(time_period)
        records == {b \in JoinedBranches(d) : b.last_seen_in_github <= ago /\ ~b.abandoned}
        rows == ById(records)
    IN  [i \in 1..Len(rows) |-> <<rows[i].name, RepositoryOf(d, rows[i]).name>>]

get_abandoned_branches_older_than(d, time_period, t) ==
    LET ago == t - Days(time_period)
        records == {b \in JoinedBranches(d) : b.created_date <= ago /\ b.abandoned}
        rows == ById(records)
    IN  [i \in 1..Len(rows) |-> <<rows[i].name, RepositoryOf(d, rows[i]).name>>]

delete_branch(d, branch_name, repository) ==
    LET records == {b \in JoinedBranches(d) : b.name = branch_name}
    IN  [d EXCEPT !.branches = @ \ records]

\* ------------------------------------------------------------------- state
VARIABLES
    now,        \* datetime.now(), in ticks
    tracking,   \* config: tracker.trackAbandonedBranches
    durations,  \* config: the duration strings of the three retention periods
    retention,  \* the three thresholds, as get_days returns them
    db,         \* the tables of the retention store
    origin,     \* per repository: the branches of the remote, name -> commit
    clones,     \* per repository: the local clone (exists, refs, heads, upstream, active)
    pc,         \* position of the process
    run,        \* the repository being updated, the remote refs still to process,
                \* local_default_branch, the entries of a sweep still to process
    runs,       \* number of updates started
    hist        \* what the properties need to remember of the past

vars == <<now, tracking, durations, retention, db, origin, clones, pc, run, runs, hist>>

NoClone == [exists |-> FALSE, refs |-> <<>>, heads |-> <<>>, upstream |-> <<>>,
            active |-> <<>>]
NoRun == [repo |-> <<>>, todo |-> <<>>, local_default_branch |-> <<>>, kind |-> "none"]
NoRef == <<>>

\* f with key k set to value v, k added to the domain when it is new
Put(f, k, v) == [x \in (DOMAIN f) \cup {k} |-> IF x = k THEN v ELSE f[x]]

OrgOf(r) == r[1]

\* ------------------------------------------------------- git primitives
\* The remote-tracking refs after a fetch (without --prune): every branch of
\* the remote is written, no ref is removed.
RECURSIVE FetchInto(_, _, _)
FetchInto(refs, org, names) ==
    IF names = {} THEN refs
    ELSE LET b == CHOOSE x \in names : TRUE
             rest == FetchInto(refs, org, names \ {b})
         IN  IF org[b] = NoCommit THEN rest ELSE Put(rest, OriginRef(b), org[b])

\* origin/HEAD is a symbolic ref to the default branch of the remote.
WithHead(refs) == Put(refs, HeadRef, refs[OriginRef(DefaultBranch)])

Fetched(c, org) ==
    [c EXCEPT !.refs = WithHead(FetchInto(c.refs, org, RemoteBranchNames))]

\* repo.remote().refs, as the list of the names, sorted by path
RemoteRefs(c) == SelectSeq(RefOrder, LAMBDA ref : ref \in DOMAIN c.refs)

get_remote_branches_with_head(c) == RemoteRefs(c)

\* Git.get_remote_branches
get_remote_branches(c) ==
    SelectSeq(RemoteRefs(c), LAMBDA ref : RSplitLast(ref) # <<"HEAD">>)

\* Git.get_remote_branches_commit_ids
get_remote_branches_commit_ids(c) ==
    {c.refs[get_remote_branches(c)[i]] : i \in 1..Len(get_remote_branches(c))}

\* git checkout -b <branch_name> <ref>: fails when the branch exists
CheckoutNewOk(c, branch_name) == branch_name \notin DOMAIN c.heads

CheckoutNew(c, branch_name, commit, up) ==
    [c EXCEPT !.heads = Put(@, branch_name, commit),
              !.upstream = Put(@, branch_name, up),
              !.active = branch_name]

\* git checkout <branch>
CheckoutOk(c, branch) == branch \in DOMAIN c.heads

Checkout(c, branch) == [c EXCEPT !.active = branch]

\* git merge --ff-only, on the checked-out branch against its upstream: exit
\* status 0 when the branch is fast-forwarded or is already up to date, 128
\* when there is no upstream or the histories have diverged.
MergeStatus(c) ==
    LET up == c.upstream[c.active]
    IN  IF up = NoRef \/ up \notin DOMAIN c.refs THEN 128
        ELSE IF IsAncestor(c.heads[c.active], c.refs[up])
                \/ IsAncestor(c.refs[up], c.heads[c.active]) THEN 0
        ELSE 128

MergeFfOnly(c) ==
    LET up == c.upstream[c.active]
    IN  IF IsAncestor(c.heads[c.active], c.refs[up])
        THEN [c EXCEPT !.heads[c.active] = c.refs[up]]
        ELSE c

\* Git.reset_branch: the last remote ref whose last path segment is the branch
RefToReset(c, branch) ==
    LET refs == RemoteRefs(c)
        hits == {i \in 1..Len(refs) : RSplitLast(refs[i]) = branch}
    IN  IF hits = {} THEN NoRef ELSE refs[SetMax(hits)]

reset_branch_every_head(c, branch) ==
    [c EXCEPT !.heads = [n \in DOMAIN c.heads |-> c.refs[RefToReset(c, branch)]]]

\* git reset --hard <ref> moves the checked-out branch
reset_branch(c, branch) == [c EXCEPT !.heads[c.active] = c.refs[RefToReset(c, branch)]]

\* --------------------------------------------------------- reconciliation
\* The outcome of a piece of a handler: the clone, the store, whether an
\* exception left the handler, and the abandonments it made.
Outcome(c, d, crashed, events) ==
    [clone |-> c, db |-> d, crashed |-> crashed, events |-> events]

\* Git.checkout_abandoned_branch, as
\* Git.backup_branch calls it.  trk: the Tracker has a session.
checkout_abandoned_branch(c, d, repository, default_branch, t, trk) ==
    LET branch_name == AbandonedName(c.active, t)
        c1 == CheckoutNew(c, branch_name, c.heads[c.active], NoRef)
        c2 == Checkout(c1, default_branch)
        d1 == track_branch(d, branch_name, repository, t, t, TRUE, TRUE, t)
    IN  IF ~CheckoutNewOk(c, branch_name) THEN Outcome(c, d, TRUE, <<>>)
        ELSE IF ~CheckoutOk(c1, default_branch) THEN Outcome(c1, d, TRUE, <<>>)
        ELSE IF ~trk THEN Outcome(c2, d, TRUE, <<>>)
        ELSE Outcome(c2, d1, FALSE,
                     << [repo |-> repository, branch |-> default_branch,
                         name |-> branch_name, time |-> t,
                         tip |-> c2.heads[branch_name],
                         pre |-> c2.heads[default_branch]] >>)

\* Git.backup_branch
backup_branch(c, d, repository, default_branch, t, trk) ==
    LET commit_id == c.heads[c.active]
        a == checkout_abandoned_branch(c, d, repository, default_branch, t, trk)
    IN  IF commit_id \notin get_remote_branches_commit_ids(c)
        THEN IF a.crashed THEN a
             ELSE IF RefToReset(a.clone, default_branch) = NoRef
                  THEN [a EXCEPT !.crashed = TRUE]
                  ELSE [a EXCEPT !.clone = reset_branch(a.clone, default_branch)]
        ELSE Outcome(c, d, FALSE, <<>>)

\* `local_default_branch != branch_name` compares a Head object with a str:
\* a reference equals only an object that has a path, so the test is true
\* for every branch name.
HeadDiffersFromStr(local_default_branch, branch_name) == TRUE

\* The first try block of an iteration of Git.update_local (lines 354-359)
CheckoutStep(c, d, repository, ref, local_default_branch, t, trk) ==
    LET branch_name == RSplitLast(ref)
        c1 == CheckoutNew(c, branch_name, c.refs[ref], ref)
    IN  IF HeadDiffersFromStr(local_default_branch, branch_name)
           /\ CheckoutNewOk(c, branch_name)
        THEN IF ~trk THEN Outcome(c1, d, TRUE, <<>>)
             ELSE Outcome(c1, track_branch(d, branch_name, repository, t, t, FALSE, TRUE, t),
                          FALSE, <<>>)
        ELSE Outcome(c, d, FALSE, <<>>)

\* The second try block of an iteration of Git.update_local (lines 361-369)
MergeStep(c, d, repository, ref, t, trk) ==
    LET branch_name == RSplitLast(ref)
    IN  IF MergeStatus(c) = 0
        THEN IF ~trk THEN Outcome(MergeFfOnly(c), d, TRUE, <<>>)
             ELSE Outcome(MergeFfOnly(c), update_branch(d, branch_name, repository, t, t),
                          FALSE, <<>>)
        ELSE backup_branch(c, d, repository, branch_name, t, trk)

\* One iteration of the loop of Git.update_local over the remote branches
Iteration(c, d, repository, ref, local_default_branch, t, trk) ==
    LET s1 == CheckoutStep(c, d, repository, ref, local_default_branch, t, trk)
    IN  IF s1.crashed THEN s1
        ELSE MergeStep(s1.clone, s1.db, repository, ref, t, trk)

LocalTips(c) == Range(c.heads)
RemoteTips(c) == Range(c.refs)

\* ----------------------------------------------------------------- actions
\* last: the handler that completed last; events: the abandonments of the last
\* loop iteration; second: the update_local that runs or ran last started
\* right after a completed update_local, with the same remote refs;
\* startHeads: the local branches when it started.
\* arg: the arguments of the Tracker method called last.
\* remote: the remote access that failed in the Git.update that runs or ran
\* last ("probe", "clone", "fetch"), "none" when none failed.
\* gate, waited: what rate_limit_wait read from github.rate_limiting in the
\* step just taken, (requests remaining, request limit), and whether it slept;
\* NoGate when the step did not call it.
NoGate == <<>>
NoHist == [last |-> "none", events |-> <<>>, second |-> FALSE, startHeads |-> <<>>,
           arg |-> <<>>, remote |-> "none", gate |-> NoGate, waited |-> FALSE]

\* github.rate_limiting as the hosting API reports it: (remaining, limit)
RateLimits == {<<requests_remaining, MaxQuota>> : requests_remaining \in 0..MaxQuota}

\* GithubApi.rate_limit_wait: TRUE when it sleeps until the reset time
rate_limit_wait(rate_limiting) ==
    LET requests_remaining == rate_limiting[1]
        request_limit == rate_limiting[2]
    IN  (request_limit - requests_remaining) <= 0

\* The body of the loop of backup_organizations up to Git.update: the gate
\* reads the quota q, and h is what the update leaves in hist
Gated(h, q) == [h EXCEPT !.gate = q, !.waited = rate_limit_wait(q)]

\* Repositories the hosting API enumerates for the reconciliation
UpdatedRepos == {GitRepo}

InitCommon ==
    /\ now = 0
    /\ db = EmptyDb
    /\ origin = [r \in Repos |-> [b \in RemoteBranchNames |->
                    IF b = DefaultBranch THEN 1 ELSE NoCommit]]
    /\ clones = [r \in Repos |-> NoClone]
    /\ pc = "idle"
    /\ run = NoRun
    /\ runs = 0
    /\ hist = NoHist

\* tracker.delete...After of the runs of the program: not configured (the
\* periods are disabled, -1), or "0d"
ProgramThresholds == {-1, 0}

Init ==
    /\ InitCommon
    /\ tracking \in BOOLEAN
    /\ \E d \in ProgramThresholds :
          /\ durations = [abandoned |-> IF d < 0 THEN <<>> ELSE <<Digit(d), "d">>,
                          branches |-> IF d < 0 THEN <<>> ELSE <<Digit(d), "d">>,
                          repositories |-> IF d < 0 THEN <<>> ELSE <<Digit(d), "d">>]
          /\ retention = [abandoned |-> d, branches |-> d, repositories |-> d]

\* Time passes.
Tick(max) ==
    /\ now < max
    /\ now' = now + 1
    /\ UNCHANGED <<tracking, durations, retention, db, origin, clones, pc, run, runs, hist>>

\* Somebody pushes (or force-pushes) commit c to branch b of the remote of r.
Push(r, b, c) ==
    /\ pc = "idle"
    /\ origin[r][b] # c
    /\ origin' = [origin EXCEPT ![r][b] = c]
    /\ UNCHANGED <<now, tracking, durations, retention, db, clones, pc, run, runs, hist>>

UpdateProbeFailed_ignored(r) ==
    /\ pc = "idle"
    /\ runs < MaxRuns
    /\ runs' = runs + 1
    /\ clones' = [clones EXCEPT ![r] = IF @.exists THEN Fetched(@, origin[r]) ELSE @]
    /\ \E q \in RateLimits : hist' = Gated([NoHist EXCEPT !.remote = "probe"], q)
    /\ UNCHANGED <<now, tracking, durations, retention, db, origin, pc, run>>

UpdateProbeFailed_raises(r) ==
    /\ pc = "idle"
    /\ runs < MaxRuns
    /\ runs' = runs + 1
    /\ pc' = "crashed"
    /\ \E q \in RateLimits : hist' = Gated([NoHist EXCEPT !.remote = "probe"], q)
    /\ UNCHANGED <<now, tracking, durations, retention, db, origin, clones, run>>

\* Git.update, when check_remote_repository_initialized returns False
UpdateProbeFailed(r) ==
    /\ pc = "idle"
    /\ runs < MaxRuns
    /\ runs' = runs + 1
    /\ \E q \in RateLimits : hist' = Gated([NoHist EXCEPT !.remote = "probe"], q)
    /\ UNCHANGED <<now, tracking, durations, retention, db, origin, clones, pc, run>>

\* git clone: the remote-tracking refs of all branches, one local branch for
\* the default branch, checked out and tracking its remote branch
Cloned(org) ==
    LET refs == WithHead(FetchInto(<<>>, org, RemoteBranchNames))
    IN  [exists |-> TRUE, refs |-> refs,
         heads |-> Put(<<>>, DefaultBranch, org[DefaultBranch]),
         upstream |-> Put(<<>>, DefaultBranch, OriginRef(DefaultBranch)),
         active |-> DefaultBranch]

Clone_tracks_failed(r, ok) ==
    /\ pc = "idle"
    /\ runs < MaxRuns
    /\ ~clones[r].exists
    /\ runs' = runs + 1
    /\ clones' = [clones EXCEPT ![r] = IF ok THEN Cloned(origin[r]) ELSE @]
    /\ IF tracking
       THEN /\ db' = track_repository(db, r, <<OrgOf(r)>>, now, now, TRUE, now)
            /\ pc' = pc
       ELSE /\ pc' = "crashed"
            /\ db' = db
    /\ \E q \in RateLimits :
          hist' = Gated([NoHist EXCEPT !.last = IF ok /\ tracking THEN "clone" ELSE "none",
                                       !.remote = IF ok THEN "none" ELSE "clone"], q)
    /\ UNCHANGED <<now, tracking, durations, retention, origin, run>>

\* Git.update -> Git.clone; ok: clone_from succeeds
Clone(r, ok) ==
    /\ pc = "idle"
    /\ runs < MaxRuns
    /\ ~clones[r].exists
    /\ runs' = runs + 1
    /\ IF ~ok
       THEN UNCHANGED <<clones, db, pc>>
       ELSE /\ clones' = [clones EXCEPT ![r] = Cloned(origin[r])]
            /\ IF tracking
               THEN /\ db' = track_repository(db, r, <<OrgOf(r)>>, now, now, TRUE, now)
                    /\ pc' = pc
               ELSE /\ pc' = "crashed"
                    /\ db' = db
    /\ \E q \in RateLimits :
          hist' = Gated([NoHist EXCEPT !.last = IF ok /\ tracking THEN "clone" ELSE "none",
                                       !.remote = IF ok THEN "none" ELSE "clone"], q)
    /\ UNCHANGED <<now, tracking, durations, retention, origin, run>>

\* Git.update -> Git.update_local, up to the loop; fetched: the fetch succeeds
UpdateLocalStart(r, fetched) ==
    /\ pc = "idle"
    /\ runs < MaxRuns
    /\ clones[r].exists
    /\ runs' = runs + 1
    /\ LET c == IF fetched THEN Fetched(clones[r], origin[r]) ELSE clones[r]
       IN  /\ clones' = [clones EXCEPT ![r] = c]
           /\ \E q \in RateLimits :
                 hist' = Gated([NoHist EXCEPT
                         !.second = hist.last = "update_local" /\ c.refs = clones[r].refs,
                         !.startHeads = IF hist.last = "update_local" /\ c.refs = clones[r].refs
                                        THEN c.heads ELSE <<>>,
                         !.remote = IF fetched THEN "none" ELSE "fetch"], q)
           /\ IF tracking
              THEN /\ db' = track_repository(db, r, <<OrgOf(r)>>, now, now, TRUE, now)
                   /\ pc' = "branches"
                   /\ run' = [repo |-> r, todo |-> get_remote_branches(c),
                              local_default_branch |-> clones[r].active,
                              kind |-> "update_local"]
              ELSE /\ pc' = "crashed"
                   /\ UNCHANGED <<db, run>>
    /\ UNCHANGED <<now, tracking, durations, retention, origin>>

\* One iteration of the loop of Git.update_local
UpdateLocalBranch ==
    /\ pc = "branches"
    /\ run.todo # <<>>
    /\ LET r == run.repo
           o == Iteration(clones[r], db, r, Head(run.todo), run.local_default_branch,
                          now, tracking)
       IN  /\ clones' = [clones EXCEPT ![r] = o.clone]
           /\ db' = o.db
           /\ hist' = [hist EXCEPT !.events = o.events, !.gate = NoGate, !.waited = FALSE]
           /\ IF o.crashed
              THEN /\ pc' = "crashed"
                   /\ run' = NoRun
              ELSE /\ pc' = pc
                   /\ run' = [run EXCEPT !.todo = Tail(@)]
    /\ UNCHANGED <<now, tracking, durations, retention, origin, runs>>

\* The end of Git.update_local: the checkout of local_default_branch and
\* tracker.update_repository
UpdateLocalFinish ==
    /\ pc = "branches"
    /\ run.todo = <<>>
    /\ LET r == run.repo
           c == Checkout(clones[r], run.local_default_branch)
       IN  /\ clones' = [clones EXCEPT ![r] = c]
           /\ db' = update_repository(db, r, <<OrgOf(r)>>, now, now)
           /\ hist' = [hist EXCEPT !.last = "update_local", !.events = <<>>]
    /\ pc' = "idle"
    /\ run' = NoRun
    /\ UNCHANGED <<now, tracking, durations, retention, origin, runs>>

\* ------------------------------------------------------------------ cleanup
\* git branch -D <name>: fails when the branch does not exist or is checked out
BranchDeleteOk(c, name) == name \in DOMAIN c.heads /\ name # c.active

BranchDelete(c, name) ==
    [c EXCEPT !.heads = [x \in (DOMAIN c.heads) \ {name} |-> c.heads[x]],
              !.upstream = [x \in (DOMAIN c.upstream) \ {name} |-> c.upstream[x]]]

\* The loop of Git.remove_branch over the remote refs named HEAD (lines 393-399)
RECURSIVE RemoveLoop(_, _, _, _)
RemoveLoop(c, removed, remote_branches, branch_name) ==
    IF remote_branches = <<>> THEN [clone |-> c, removed |-> removed, crashed |-> FALSE]
    ELSE IF Head(remote_branches) # branch_name
         THEN IF BranchDeleteOk(c, branch_name)
              THEN RemoveLoop(BranchDelete(c, branch_name), TRUE,
                              Tail(remote_branches), branch_name)
              ELSE RemoveLoop(c, FALSE, Tail(remote_branches), branch_name)
         ELSE RemoveLoop(c, removed, Tail(remote_branches), branch_name)

\* Git.remove_branch; Repo(path) raises when there is no clone at the path
remove_branch(c, branch_name) ==
    IF ~c.exists THEN [clone |-> c, removed |-> FALSE, crashed |-> TRUE]
    ELSE IF Contains(branch_name, "_abandoned_")
         THEN IF BranchDeleteOk(c, branch_name)
              THEN [clone |-> BranchDelete(c, branch_name), removed |-> TRUE,
                    crashed |-> FALSE]
              ELSE [clone |-> c, removed |-> FALSE, crashed |-> FALSE]
         ELSE RemoveLoop(c, FALSE,
                         SelectSeq(RemoteRefs(c), LAMBDA ref : RSplitLast(ref) = <<"HEAD">>),
                         branch_name)

\* The repository a branch row is meant to belong to: the name of the row its
\* repository_id joins, or the text of repository_id itself.
OwnerName(d, b) ==
    IF b \in JoinedBranches(d) THEN RepositoryOf(d, b).name ELSE b.repository_id

SweepQuery_abandoned_threshold(kind) ==
    CASE kind = "abandoned" -> get_abandoned_branches_older_than(db, retention.abandoned, now)
      [] kind = "branches" -> get_branches_older_than(db, retention.abandoned, now)
      [] kind = "repositories" -> get_repositories_older_than(db, retention.repositories, now)

\* The query each sweep starts with
SweepQuery(kind) ==
    CASE kind = "abandoned" -> get_abandoned_branches_older_than(db, retention.abandoned, now)
      [] kind = "branches" -> get_branches_older_than(db, retention.branches, now)
      [] kind = "repositories" -> get_repositories_older_than(db, retention.repositories, now)

SweepKinds == {"abandoned", "branches", "repositories"}

\* The start of GithubBackup.clean_abandoned_branches, clean_tracked_branches
\* and clean_tracked_repositories: the query, and the return when it is empty
CleanStart(kind) ==
    /\ pc = "idle"
    /\ runs < MaxRuns
    /\ runs' = runs + 1
    /\ IF ~tracking
       THEN /\ pc' = "crashed"
            /\ run' = NoRun
       ELSE IF Len(SweepQuery(kind)) = 0
            THEN /\ pc' = "idle"
                 /\ run' = NoRun
            ELSE /\ pc' = "sweep"
                 /\ run' = [NoRun EXCEPT !.todo = SweepQuery(kind), !.kind = kind]
    /\ hist' = NoHist
    /\ UNCHANGED <<now, tracking, durations, retention, db, origin, clones>>

\* One iteration of the loop of clean_abandoned_branches / clean_tracked_branches
CleanBranchEntry ==
    /\ pc = "sweep"
    /\ run.kind \in {"abandoned", "branches"}
    /\ run.todo # <<>>
    /\ LET branch_tuple == Head(run.todo)
           rb == remove_branch(clones[branch_tuple[2]], branch_tuple[1])
           d == IF rb.removed THEN delete_branch(db, branch_tuple[1], branch_tuple[2])
                ELSE db
       IN  /\ clones' = [clones EXCEPT ![branch_tuple[2]] = rb.clone]
           /\ db' = d
           /\ pc' = IF rb.crashed THEN "crashed" ELSE pc
           /\ run' = IF rb.crashed THEN NoRun ELSE [run EXCEPT !.todo = Tail(@)]
           /\ hist' = [NoHist EXCEPT !.last = run.kind, !.arg = branch_tuple]
    /\ UNCHANGED <<now, tracking, durations, retention, origin, runs>>

\* One iteration of the loop of clean_tracked_repositories; ok: rmtree removes
\* the working copy (its errors are ignored)
CleanRepositoryEntry(ok) ==
    /\ pc = "sweep"
    /\ run.kind = "repositories"
    /\ run.todo # <<>>
    /\ LET repository == Head(run.todo)
           d == delete_repository(db, repository, RSplitFirst(repository))
       IN  /\ clones[repository].exists \/ ok
           /\ clones' = [clones EXCEPT ![repository] = IF ok THEN NoClone ELSE @]
           /\ db' = d
           /\ hist' = [NoHist EXCEPT !.last = run.kind, !.arg = repository]
    /\ run' = [run EXCEPT !.todo = Tail(@)]
    /\ UNCHANGED <<now, tracking, durations, retention, origin, pc, runs>>

\* clean_tracked_repositories ends between rmtree and delete_repository (the
\* process is stopped, or delete_repository raises): the working copy is gone,
\* the records are still there
CleanRepositoryEntryInterrupted ==
    /\ pc = "sweep"
    /\ run.kind = "repositories"
    /\ run.todo # <<>>
    /\ clones[Head(run.todo)].exists
    /\ clones' = [clones EXCEPT ![Head(run.todo)] = NoClone]
    /\ pc' = "crashed"
    /\ run' = NoRun
    /\ hist' = NoHist
    /\ UNCHANGED <<now, tracking, durations, retention, db, origin, runs>>

\* The end of a sweep
CleanFinish ==
    /\ pc = "sweep"
    /\ run.todo = <<>>
    /\ pc' = "idle"
    /\ run' = NoRun
    /\ hist' = NoHist
    /\ UNCHANGED <<now, tracking, durations, retention, db, origin, clones, runs>>

\* The process ended with an exception; the tool is started again later.
Restart ==
    /\ pc = "crashed"
    /\ pc' = "idle"
    /\ run' = NoRun
    /\ hist' = NoHist
    /\ UNCHANGED <<now, tracking, durations, retention, db, origin, clones, runs>>

Next ==
    \/ Tick(MaxTime)
    \/ \E r \in UpdatedRepos, b \in RemoteBranchNames, c \in Commits : Push(r, b, c)
    \/ \E r \in UpdatedRepos : UpdateProbeFailed(r)
    \/ \E r \in UpdatedRepos, ok \in BOOLEAN : Clone(r, ok)
    \/ \E r \in UpdatedRepos, fetched \in BOOLEAN : UpdateLocalStart(r, fetched)
    \/ UpdateLocalBranch
    \/ UpdateLocalFinish
    \/ \E kind \in SweepKinds : CleanStart(kind)
    \/ Restart

Spec == Init /\ [][Next]_vars

\* ------------------------------------------------- the Tracker, called directly
\* The public methods of Tracker, called with ids for organization_id and
\* repository_id, as their parameters are named.  (Git.clone, Git.update_local
\* and Git.checkout_abandoned_branch pass names: that is part of Spec.)
Thresholds == {-1, MaxDays}
ApiBranchNames == {<<"dev">>, AbandonedName(<<"main">>, 0)}
ApiIds == {IntText(i) : i \in 1..MaxRows}
ApiOrganizationIds == {IntText(1)}

\* A clone as two updates leave it: main and dev, and main_abandoned_<time 0>
StoreClone ==
    [exists |-> TRUE,
     refs |-> Put(Put(Put(<<>>, OriginRef(<<"main">>), 3), OriginRef(<<"dev">>), 1),
                  HeadRef, 3),
     heads |-> Put(Put(Put(<<>>, <<"main">>, 2), <<"dev">>, 1),
                   AbandonedName(<<"main">>, 0), 2),
     upstream |-> Put(Put(Put(<<>>, <<"main">>, OriginRef(<<"main">>)),
                          <<"dev">>, OriginRef(<<"dev">>)),
                      AbandonedName(<<"main">>, 0), NoRef),
     active |-> <<"main">>]

\* The clone of a repository that was empty when it was cloned and got its
\* branches later: the fetch wrote origin/main and origin/dev, and no
\* origin/HEAD (git clone writes it, and only for a remote with commits)
StoreCloneNoHead ==
    [StoreClone EXCEPT !.refs = Put(Put(<<>>, OriginRef(<<"main">>), 3), OriginRef(<<"dev">>), 1)]

InitStore ==
    /\ now = 0
    /\ db = EmptyDb
    /\ origin = [r \in Repos |-> [b \in RemoteBranchNames |->
                    IF b = DefaultBranch THEN 3 ELSE 1]]
    /\ clones = [r \in Repos |-> IF r = OtherRepo THEN StoreCloneNoHead ELSE StoreClone]
    /\ pc = "idle"
    /\ run = NoRun
    /\ runs = 0
    /\ hist = NoHist
    /\ tracking = TRUE
    /\ \E d \in Thresholds :
          /\ durations = [k \in SweepKinds |->
                             IF d < 0 THEN <<>>
                             ELSE IF k = "abandoned" THEN <<"0", "d">>
                             ELSE <<Digit(d), "d">>]
          /\ retention = [abandoned |-> IF d < 0 THEN d ELSE 0,
                          branches |-> d, repositories |-> d]

\* The bound of the model on the ids, and so on the rows, of a table
RowsOk(d) ==
    \A x \in d.organizations \cup d.repositories \cup d.branches : x.id <= MaxRows

ApiTrackOrganization(o) ==
    /\ pc = "idle"
    /\ runs = 0
    /\ db' = track_organization(db, <<o>>, TRUE)
    /\ RowsOk(db')
    /\ hist' = NoHist
    /\ UNCHANGED <<now, tracking, durations, retention, origin, clones, pc, run, runs>>

ApiTrackRepository(r, organization_id) ==
    /\ pc = "idle"
    /\ runs = 0
    /\ db' = track_repository(db, r, organization_id, now, now, TRUE, now)
    /\ RowsOk(db')
    /\ hist' = NoHist
    /\ UNCHANGED <<now, tracking, durations, retention, origin, clones, pc, run, runs>>

ApiDeleteRepository(r) ==
    /\ pc = "idle"
    /\ runs = 0
    /\ db' = delete_repository(db, r, <<OrgOf(r)>>)
    /\ hist' = [NoHist EXCEPT !.last = "delete_repository",
                              !.arg = <<r, {b.name : b \in db.branches \ db'.branches}>>]
    /\ UNCHANGED <<now, tracking, durations, retention, origin, clones, pc, run, runs>>

\* Tracker.delete_repository that ends between its two commits (the process
\* is stopped, or the second commit raises): delete_all_branches has
\* committed, the Repository record is still there
ApiDeleteRepositoryInterrupted(r) ==
    /\ pc = "idle"
    /\ runs = 0
    /\ \E x \in JoinedRepositories(db) : x.name = r
    /\ db' = delete_all_branches(db, r)
    /\ pc' = "crashed"
    /\ hist' = [NoHist EXCEPT !.last = "delete_repository",
                              !.arg = <<r, {b.name : b \in db.branches \ db'.branches}>>]
    /\ UNCHANGED <<now, tracking, durations, retention, origin, clones, run, runs>>

ApiTrackBranch(b, repository_id) ==
    /\ pc = "idle"
    /\ runs = 0
    /\ db' = track_branch(db, b, repository_id, now, now, Contains(b, "_abandoned_"),
                          TRUE, now)
    /\ RowsOk(db')
    /\ hist' = [NoHist EXCEPT !.last = "track_branch", !.arg = <<b, repository_id>>]
    /\ UNCHANGED <<now, tracking, durations, retention, origin, clones, pc, run, runs>>

ApiUpdateBranch(b, repository_id) ==
    /\ pc = "idle"
    /\ runs = 0
    /\ db' = update_branch(db, b, repository_id, now, now)
    /\ RowsOk(db')
    /\ hist' = [NoHist EXCEPT !.last = "update_branch", !.arg = <<b, repository_id>>]
    /\ UNCHANGED <<now, tracking, durations, retention, origin, clones, pc, run, runs>>

ApiUpdateRepository(r) ==
    /\ pc = "idle"
    /\ runs = 0
    /\ db' = update_repository(db, r, <<OrgOf(r)>>, now, now)
    /\ hist' = [NoHist EXCEPT !.last = "update_repository", !.arg = <<r>>]
    /\ UNCHANGED <<now, tracking, durations, retention, origin, clones, pc, run, runs>>

ApiDeleteBranch(b, r) ==
    /\ pc = "idle"
    /\ runs = 0
    /\ db' = delete_branch(db, b, r)
    /\ hist' = [NoHist EXCEPT !.last = "delete_branch", !.arg = <<b, r>>]
    /\ UNCHANGED <<now, tracking, durations, retention, origin, clones, pc, run, runs>>

NextStore ==
    \/ Tick(MaxStoreTime)
    \/ \E o \in Organizations : ApiTrackOrganization(o)
    \/ \E r \in Repos, organization_id \in ApiOrganizationIds : ApiTrackRepository(r, organization_id)
    \/ \E r \in Repos : ApiDeleteRepository(r)
    \/ \E b \in ApiBranchNames, repository_id \in ApiIds : ApiTrackBranch(b, repository_id)
    \/ \E b \in ApiBranchNames, r \in Repos : ApiDeleteBranch(b, r)
    \/ \E kind \in SweepKinds : CleanStart(kind)
    \/ CleanBranchEntry
    \/ \E ok \in BOOLEAN : CleanRepositoryEntry(ok)
    \/ CleanRepositoryEntryInterrupted
    \/ CleanFinish
    \/ Restart

SpecStore == InitStore /\ [][NextStore]_vars

\* The Tracker alone: every public method that writes, and the clock
NextApi ==
    \/ Tick(MaxTime)
    \/ \E o \in Organizations : ApiTrackOrganization(o)
    \/ \E r \in Repos, organization_id \in ApiOrganizationIds : ApiTrackRepository(r, organization_id)
    \/ \E r \in Repos : ApiUpdateRepository(r)
    \/ \E r \in Repos : ApiDeleteRepository(r)
    \/ \E b \in ApiBranchNames, repository_id \in ApiIds : ApiTrackBranch(b, repository_id)
    \/ \E b \in ApiBranchNames, repository_id \in ApiIds : ApiUpdateBranch(b, repository_id)
    \/ \E b \in ApiBranchNames, r \in Repos : ApiDeleteBranch(b, r)
    \/ \E r \in Repos : ApiDeleteRepositoryInterrupted(r)
    \/ Restart

SpecApi == InitStore /\ [][NextApi]_vars

\* ------------------------------------------- the configured retention periods
\* The characters of the duration strings: digits, the three units, and a
\* letter that is no unit
DurationChars == {"0", "1", "3", "6", "d", "m", "y", "x"}

\* tracker.delete...After of the configuration file: any short string, and
\* a word without a unit letter
DurationInputs ==
    UNION {[1..n -> DurationChars] : n \in 0..MaxLen} \cup {<<"b", "o", "g", "u", "s">>}

InitConfig ==
    /\ InitCommon
    /\ tracking = TRUE
    /\ \E s \in DurationInputs : durations = [k \in SweepKinds |-> s]
    /\ retention = [abandoned |-> -1, branches |-> -1, repositories |-> -1]

\* The start of a sweep, from the configured duration: get_delete_..._after()
\* calls get_days, then the query runs with the threshold it returned
CleanConfigured(kind) ==
    /\ pc = "idle"
    /\ runs < MaxRuns
    /\ runs' = runs + 1
    /\ LET r == get_days(durations[kind])
           todo == CASE kind = "abandoned" ->
                           get_abandoned_branches_older_than(db, r.value, now)
                     [] kind = "branches" -> get_branches_older_than(db, r.value, now)
                     [] kind = "repositories" ->
                           get_repositories_older_than(db, r.value, now)
       IN  IF r.raised
           THEN /\ pc' = "crashed"
                /\ run' = NoRun
                /\ retention' = retention
           ELSE /\ retention' = [retention EXCEPT ![kind] = r.value]
                /\ IF Len(todo) = 0
                   THEN pc' = "idle" /\ run' = NoRun
                   ELSE pc' = "sweep" /\ run' = [NoRun EXCEPT !.todo = todo, !.kind = kind]
    /\ hist' = [NoHist EXCEPT !.last = "get_days", !.arg = kind]
    /\ UNCHANGED <<now, tracking, durations, db, origin, clones>>

NextConfig ==
    \/ \E kind \in SweepKinds : CleanConfigured(kind)
    \/ Restart

SpecConfig == InitConfig /\ [][NextConfig]_vars

\* ------------------------------------------ branch names with a path separator
\* The clone of a remote that has, besides main, the branches bugfix/x and
\* feature/x: git clone wrote their remote-tracking refs and checked out main
SlashClone ==
    [exists |-> TRUE,
     refs |-> Put(Put(Put(Put(<<>>, OriginRef(<<"main">>), 1),
                          OriginRef(<<"bugfix", "/", "x">>), 2),
                      OriginRef(<<"feature", "/", "x">>), 3),
                  HeadRef, 1),
     heads |-> Put(<<>>, <<"main">>, 1),
     upstream |-> Put(<<>>, <<"main">>, OriginRef(<<"main">>)),
     active |-> <<"main">>]

InitNames ==
    /\ now = 0
    /\ db = EmptyDb
    /\ origin = [r \in Repos |-> [b \in RemoteBranchNames |->
                    IF b = DefaultBranch THEN 1 ELSE NoCommit]]
    /\ clones = [r \in Repos |-> IF r = GitRepo THEN SlashClone ELSE NoClone]
    /\ pc = "idle"
    /\ run = NoRun
    /\ runs = 0
    /\ hist = NoHist
    /\ tracking \in BOOLEAN
    /\ durations = [k \in SweepKinds |-> <<>>]
    /\ retention = [k \in SweepKinds |-> -1]

\* The updates of that clone; bugfix/x and feature/x of the remote do not move
NextNames ==
    \/ Tick(MaxTime)
    \/ \E r \in UpdatedRepos, b \in RemoteBranchNames, c \in Commits : Push(r, b, c)
    \/ \E r \in UpdatedRepos : UpdateProbeFailed(r)
    \/ \E r \in UpdatedRepos, fetched \in BOOLEAN : UpdateLocalStart(r, fetched)
    \/ UpdateLocalBranch
    \/ UpdateLocalFinish
    \/ Restart

SpecNames == InitNames /\ [][NextNames]_vars

\* ------------------------------------------------------------ properties
\* C1: no step of the reconciliation makes a commit that was reachable from
\* a local branch unreachable from all local and remote branches.
C1_NoLoss ==
    [][\A r \in Repos :
         clones[r].exists =>
            Reachable(LocalTips(clones[r])) \subseteq
                Reachable(LocalTips(clones'[r]) \cup RemoteTips(clones'[r]))]_vars

\* C2: an update_local that follows a completed update_local with the same
\* remote refs leaves every local branch where it was and creates none.
C2_Idempotent ==
    (pc = "idle" /\ hist.last = "update_local" /\ hist.second)
        => clones[GitRepo].heads = hist.startHeads

\* C3: an abandoned branch is named after the branch B being reconciled and
\* the time of the abandonment, and points to the tip B had before its reset.
C3_AbandonedNaming ==
    \A i \in 1..Len(hist.events) :
        LET e == hist.events[i]
        IN  /\ e.name = e.branch \o <<"_abandoned_">> \o Strftime(e.time)
            /\ e.tip = e.pre

\* The rows of a table whose id is in no row of the table after the step
Deleted(before, after) == {x \in before : \A y \in after : y.id # x.id}

\* A step of a sweep that processes the entry Head(run.todo)
SweepEntryStep(kinds) ==
    /\ pc = "sweep"
    /\ run.kind \in kinds
    /\ run.todo # <<>>
    /\ run'.todo = Tail(run.todo)

\* C4: when the working copy of a stale repository is still there after its
\* entry of the stale-repository sweep, its record is still there too and the
\* query returns it again.
C4_RepositoryRecordKept ==
    [][(SweepEntryStep({"repositories"}) /\ clones'[Head(run.todo)].exists)
         => \E i \in 1..Len(get_repositories_older_than(db', retention.repositories, now')) :
               get_repositories_older_than(db', retention.repositories, now')[i]
                   = Head(run.todo)]_vars

\* C5: a step of a branch sweep removes a Branch record only when the local
\* branch of that name in the repository of the record was deleted in the step.
C5_RecordAfterBranch ==
    [][SweepEntryStep({"abandoned", "branches"})
         => \A b \in Deleted(db.branches, db'.branches) :
               /\ b.name \in DOMAIN clones[OwnerName(db, b)].heads
               /\ b.name \notin DOMAIN clones'[OwnerName(db, b)].heads]_vars

\* C6: with the disabled threshold -1 the three older-than queries are empty.
C6_DisabledIsEmpty ==
    /\ Len(get_branches_older_than(db, -1, now)) = 0
    /\ Len(get_abandoned_branches_older_than(db, -1, now)) = 0
    /\ Len(get_repositories_older_than(db, -1, now)) = 0

\* C7: with tracking disabled no Tracker call ends the process.
C7_TrackingDisabledTolerated == ~tracking => pc # "crashed"

\* C8: a step that deletes the record of repository R deletes every Branch
\* record whose repository reference leads to R, and no other Branch record.
OwnedBy(d, b, R) == b \in JoinedBranches(d) /\ RepositoryOf(d, b).name = R

C8_CascadeScope ==
    [][\A R \in Repos :
         (\E r \in Deleted(db.repositories, db'.repositories) : r.name = R)
            => \A b \in db.branches :
                  OwnedBy(db, b, R) <=> b \in Deleted(db.branches, db'.branches)]_vars

\* a delete_repository(R) removed the record of a branch of R, and a record
\* with the same branch name, of another repository, is still there
C8_Witness ==
    /\ hist.last = "delete_repository"
    /\ \E b \in db.branches :
          /\ b.name \in hist.arg[2]
          /\ b \in JoinedBranches(db)
          /\ RepositoryOf(db, b).name # hist.arg[1]

\* C9: delete_branch(name, repo), called directly or by a sweep, removes no
\* record of another branch name or of another repository.
C9_DeleteBranchScope ==
    [][\A b \in Deleted(db.branches, db'.branches) :
          /\ hist'.last = "delete_branch"
                => b.name = hist'.arg[1] /\ OwnerName(db, b) = hist'.arg[2]
          /\ SweepEntryStep({"abandoned", "branches"})
                => b.name = Head(run.todo)[1] /\ OwnerName(db, b) = Head(run.todo)[2]]_vars

\* C10: for a threshold d >= 0 each query returns exactly the entities whose
\* qualifying timestamp is at or before now - d days: one that is exactly d
\* days old is returned, one that is younger by a tick is not.
InSeq(x, seq) == \E i \in 1..Len(seq) : seq[i] = x

BranchEntity(b) ==
    <<b.name, (CHOOSE r \in db.repositories : IntText(r.id) = b.repository_id).name>>

IsDuration(s, unit) ==
    /\ Len(s) >= 2
    /\ s[Len(s)] = unit
    /\ \A i \in 1..(Len(s) - 1) : IsDigit(s[i])

\* C11: get_days maps <n>d to n, <n>m to 30 n and <n>y to 365 n, and a string
\* with none of the unit letters to a negative number.
C11_GetDays ==
    \A k \in SweepKinds :
        (hist.last = "get_days" /\ hist.arg = k) =>
            LET s == durations[k]
                n == Decimal(SubSeq(s, 1, Len(s) - 1))
            IN  /\ IsDuration(s, "d") => pc = "idle" /\ retention[k] = n
                /\ IsDuration(s, "m") => pc = "idle" /\ retention[k] = 30 * n
                /\ IsDuration(s, "y") => pc = "idle" /\ retention[k] = 365 * n
                /\ s = <<"3", "0", "d">> => retention[k] = 30
                /\ s = <<"6", "m">> => retention[k] = 180
                /\ s = <<"1", "y">> => retention[k] = 365
                /\ (\A u \in {"d", "m", "y"} : ~Contains(s, u))
                      => pc = "idle" /\ retention[k] < 0

\* a sweep has read the duration 6m and got 180 days
C11_Witness ==
    /\ hist.last = "get_days"
    /\ durations[hist.arg] = <<"6", "m">>
    /\ retention[hist.arg] = 180

\* C12: get_days raises for no string; a string that is no <n><unit> duration
\* gives a negative threshold.
C12_NeverRaises ==
    \A k \in SweepKinds :
        (hist.last = "get_days" /\ hist.arg = k) =>
            /\ pc # "crashed"
            /\ (\A u \in {"d", "m", "y"} : ~IsDuration(durations[k], u))
                  => retention[k] < 0

\* The Branch records of branch b of the repository that repository_id names
BranchRecords(d, b, repository_id) ==
    {x \in d.branches : x.name = b /\ x.repository_id = repository_id}

\* The rows of a table whose id is in no row of the table before the step
Inserted(before, after) == {x \in after : \A y \in before : y.id # x.id}

\* The rows of a table that the step leaves in it with another content
Modified(before, after) == {x \in before : x \notin after /\ \E y \in after : y.id = x.id}

HasRepository(d, repository_id) == \E r \in d.repositories : IntText(r.id) = repository_id

\* C13: track_branch(name, repo, abandoned) for a recorded repository inserts
\* exactly one record with the given attributes when the branch of that
\* repository has none with that flag; otherwise it inserts nothing, and it
\* refreshes the last-seen of that record only, and only if it is not
\* abandoned.  Records of other repositories are neither counted nor changed.
C13_TrackBranch ==
    [][(hist'.last = "track_branch" /\ HasRepository(db, hist'.arg[2])) =>
          LET b == hist'.arg[1]
              rid == hist'.arg[2]
              ab == Contains(b, "_abandoned_")
              same == {x \in BranchRecords(db, b, rid) : x.abandoned = ab}
              new == Inserted(db.branches, db'.branches)
          IN  /\ same = {} =>
                    /\ Cardinality(new) = 1
                    /\ \A x \in new :
                          /\ x.name = b /\ x.repository_id = rid /\ x.abandoned = ab
                          /\ x.created_date = now /\ x.last_seen_in_github = now
              /\ same # {} => new = {}
              /\ \A x \in Modified(db.branches, db'.branches) :
                    x \in same /\ ~x.abandoned
              /\ \A x \in same : ~x.abandoned =>
                    \E y \in db'.branches : y.id = x.id /\ y.last_seen_in_github = now
              /\ Deleted(db.branches, db'.branches) = {}]_vars

\* C14: update_branch(name, repo, now) for a recorded repository sets the
\* last-seen of the record of that branch of that repository to now and adds
\* nothing when there is one; otherwise it inserts exactly one record of that
\* repository, not abandoned, tracked, created and last seen now.
C14_UpdateBranch ==
    [][(hist'.last = "update_branch" /\ HasRepository(db, hist'.arg[2])) =>
          LET b == hist'.arg[1]
              rid == hist'.arg[2]
              same == BranchRecords(db, b, rid)
              new == Inserted(db.branches, db'.branches)
          IN  /\ same # {} =>
                    /\ new = {}
                    /\ \A x \in same :
                          \E y \in db'.branches : y.id = x.id /\ y.last_seen_in_github = now
              /\ same = {} =>
                    /\ Cardinality(new) = 1
                    /\ \A x \in new :
                          /\ x.name = b /\ x.repository_id = rid
                          /\ ~x.abandoned /\ x.track
                          /\ x.created_date = now /\ x.last_seen_in_github = now
              /\ \A x \in Modified(db.branches, db'.branches) : x \in same
              /\ Deleted(db.branches, db'.branches) = {}]_vars

\* C15: the store holds at most one Repository record per organization and
\* name.
C15_OneRecordPerRepository ==
    \A x \in db.repositories, y \in db.repositories :
        (x.name = y.name /\ x.organization_id = y.organization_id) => x.id = y.id

\* C16: a delete_repository call never leaves a store in which a Branch
\* record of the repository is deleted and its Repository record is not.
C16_AtomicDelete ==
    [][hist'.last = "delete_repository" =>
          \A b \in Deleted(db.branches, db'.branches) :
              RepositoryOf(db, b).id \in
                  {r.id : r \in Deleted(db.repositories, db'.repositories)}]_vars

IsAbandonedName(n) == Contains(n, "_abandoned_")

\* C17: no step changes the commit of an abandoned branch; an abandoned
\* branch goes away only in a step of a cleanup sweep.
C17_FrozenSnapshot ==
    [][\A r \in Repos :
         \A n \in DOMAIN clones[r].heads :
            IsAbandonedName(n) =>
               \/ /\ n \in DOMAIN clones'[r].heads
                  /\ clones'[r].heads[n] = clones[r].heads[n]
               \/ /\ n \notin DOMAIN clones'[r].heads
                  /\ pc = "sweep"]_vars

\* a later run has abandoned and hard-reset a branch again while an earlier
\* abandoned branch exists
C17_Witness ==
    /\ pc = "idle"
    /\ hist.last = "update_local"
    /\ \E n1 \in DOMAIN clones[GitRepo].heads, n2 \in DOMAIN clones[GitRepo].heads :
          IsAbandonedName(n1) /\ IsAbandonedName(n2) /\ n1 # n2

\* C18: the repository reference of every Branch record is the id of a
\* Repository record of the store.
C18_BranchHasRepository ==
    \A b \in db.branches : \E r \in db.repositories : IntText(r.id) = b.repository_id

\* C19: the organization reference of every Repository record is the id of an
\* Organization record of the store.
C19_RepositoryHasOrganization ==
    \A r \in db.repositories : \E o \in db.organizations : IntText(o.id) = r.organization_id

\* C20: update_repository and delete_repository for a repository without a
\* record, and delete_branch for a branch without a record in that
\* repository, leave the store as it is and raise nothing.
C20_NoOpOnMissing ==
    [][/\ (hist'.last \in {"update_repository", "delete_repository"}
             /\ \A r \in db.repositories : r.name # hist'.arg[1])
          => db' = db /\ pc' = "idle"
       /\ (hist'.last = "delete_branch"
             /\ \A b \in db.branches :
                   ~(b.name = hist'.arg[1] /\ OwnerName(db, b) = hist'.arg[2]))
          => db' = db /\ pc' = "idle"]_vars

\* A step that runs one iteration of the loop of update_local, for the remote
\* ref Head(run.todo)
IterationStep ==
    /\ pc = "branches"
    /\ run.todo # <<>>
    /\ run' # run

\* The Branch records named n that the step inserts or changes
Touched(n) ==
    {x \in Inserted(db.branches, db'.branches) \cup Modified(db.branches, db'.branches) :
        x.name = n}

\* C21: in the iteration for remote branch B, when local B is an ancestor of
\* (or equal to) the remote tip of B, local B is at the remote tip afterwards,
\* no other local branch has moved, and a record of B is written only when B
\* is at its remote tip.
C21_FastForward ==
    [][IterationStep =>
          LET ref == Head(run.todo)
              B == RSplitLast(ref)
              c == clones[run.repo]
              c2 == clones'[run.repo]
          IN  (B \in DOMAIN c.heads /\ IsAncestor(c.heads[B], c.refs[ref])) =>
                 /\ c2.heads[B] = c.refs[ref]
                 /\ \A n \in (DOMAIN c.heads) \ {B} : c2.heads[n] = c.heads[n]
                 /\ Touched(B) # {} => c2.heads[B] = c2.refs[ref]]_vars

\* The fast-forward of local branch B of clone c to the remote ref fails: the
\* two have diverged
Diverged(c, B, ref) ==
    /\ B \in DOMAIN c.heads
    /\ ~IsAncestor(c.heads[B], c.refs[ref])
    /\ ~IsAncestor(c.refs[ref], c.heads[B])

\* The local branches with an abandoned-branch name that the step creates
NewAbandoned(c, c2) == {n \in (DOMAIN c2.heads) \ (DOMAIN c.heads) : IsAbandonedName(n)}

\* C22: in the iteration for remote branch B, when local B is checked out, has
\* diverged from the remote tip of B (its fast-forward fails) and its tip is
\* the tip of some remote branch, no abandoned branch is created and local B
\* is at the remote tip afterwards.
C22_ResetWithoutAbandon ==
    [][IterationStep =>
          LET ref == Head(run.todo)
              B == RSplitLast(ref)
              c == clones[run.repo]
              c2 == clones'[run.repo]
          IN  (/\ c.active = B
               /\ Diverged(c, B, ref)
               /\ c.heads[B] \in get_remote_branches_commit_ids(c)) =>
                 /\ NewAbandoned(c, c2) = {}
                 /\ c2.heads[B] = c.refs[ref]]_vars

\* C23: in the iteration for remote branch B, when local B has diverged from
\* the remote tip of B and its tip is the tip of no remote branch, exactly one
\* abandoned branch is created, at the tip B had; B is at its remote tip
\* afterwards and no other branch has moved; and exactly one abandoned Branch
\* record is inserted, under the name of that branch, created now.
C23_AbandonAndReset ==
    [][IterationStep =>
          LET ref == Head(run.todo)
              B == RSplitLast(ref)
              c == clones[run.repo]
              c2 == clones'[run.repo]
              recs == {x \in Inserted(db.branches, db'.branches) : x.abandoned}
          IN  (/\ Diverged(c, B, ref)
               /\ c.heads[B] \notin get_remote_branches_commit_ids(c)
               /\ AbandonedName(B, now) \notin DOMAIN c.heads) =>
                 /\ Cardinality(NewAbandoned(c, c2)) = 1
                 /\ \A n \in NewAbandoned(c, c2) : c2.heads[n] = c.heads[B]
                 /\ c2.heads[B] = c.refs[ref]
                 /\ \A n \in (DOMAIN c.heads) \ {B} : c2.heads[n] = c.heads[n]
                 /\ Cardinality(recs) = 1
                 /\ \A x \in recs : x.name \in NewAbandoned(c, c2) /\ x.created_date = now]_vars

\* C24: whatever fails in the iteration for one remote branch, update_local
\* goes on with the remaining remote branches and still has the branch to
\* restore at the end: no iteration ends the loop.
C24_BranchErrorIsolation ==
    [][IterationStep =>
          /\ pc' = "branches"
          /\ run'.todo = Tail(run.todo)
          /\ run'.local_default_branch = run.local_default_branch]_vars

\* A step that starts a Git.update in which a remote access fails
RemoteErrorStep(kinds) ==
    /\ runs' = runs + 1
    /\ hist'.remote \in kinds

\* C25: the Git.update in which the probe or the clone fails returns to its
\* caller, and the update_local whose fetch fails goes on to its loop (with a
\* working Tracker): the failed remote access ends the process in no case.
C25_RemoteErrorNotFatal ==
    [][/\ RemoteErrorStep({"probe", "clone"}) => pc' = "idle"
       /\ (RemoteErrorStep({"fetch"}) /\ tracking) => pc' = "branches"]_vars

\* an update_local whose fetch failed has run to its end
C25_Witness ==
    /\ pc = "idle"
    /\ hist.last = "update_local"
    /\ hist.remote = "fetch"

\* C26: no step of an update_local whose fetch failed creates or moves a
\* local branch, and at its end the branch that was checked out at its start
\* is checked out.
C26_FetchFailureFrame ==
    [][(pc = "branches" /\ hist.remote = "fetch") =>
          /\ clones'[run.repo].heads = clones[run.repo].heads
          /\ pc' = "idle" => clones'[run.repo].active = run.local_default_branch]_vars

\* C27: the Git.update whose remote probe fails changes no clone (no ref, no
\* local branch, not the checked-out branch) and writes nothing to the store.
C27_ProbeFailureFrame ==
    [][RemoteErrorStep({"probe"}) => clones' = clones /\ db' = db]_vars

\* the probe has failed for a repository that has a clone and a Repository
\* record, while its remote-tracking ref of main is behind the remote
C27_Witness ==
    /\ hist.remote = "probe"
    /\ clones[GitRepo].exists
    /\ clones[GitRepo].refs[OriginRef(DefaultBranch)] # origin[GitRepo][DefaultBranch]
    /\ db.repositories # {}

\* C28: no step changes the created or the last-seen timestamp of a Branch
\* record that is abandoned; such a record stays as it is or is deleted.
C28_AbandonedImmutable ==
    [][\A x \in db.branches :
          x.abandoned =>
             \A y \in db'.branches :
                y.id = x.id =>
                   /\ y.created_date = x.created_date
                   /\ y.last_seen_in_github = x.last_seen_in_github]_vars

\* C29: when update_local completes, the branch that was checked out at its
\* start is checked out, and a Repository record of the repository has the
\* time of the completion as its last-seen.
C29_RestoreAndTouch ==
    [][(pc = "branches" /\ pc' = "idle") =>
          /\ clones'[run.repo].active = run.local_default_branch
          /\ \E x \in db'.repositories :
                x.name = run.repo /\ x.last_seen_in_github = now]_vars

\* C30: the iteration for a remote branch B without a local branch creates
\* local B at the remote tip of B and leaves a tracked, non-abandoned record of
\* B; the iteration for a B that has a local branch creates no local branch
\* (but an abandoned one); and no iteration adds a record of B to one that is
\* there, or more than one.
C30_CreateMissingBranch ==
    [][IterationStep =>
          LET ref == Head(run.todo)
              B == RSplitLast(ref)
              c == clones[run.repo]
              c2 == clones'[run.repo]
              new == {x \in Inserted(db.branches, db'.branches) : x.name = B}
          IN  /\ B \notin DOMAIN c.heads =>
                    /\ B \in DOMAIN c2.heads
                    /\ c2.heads[B] = c.refs[ref]
                    /\ \E x \in BranchRecords(db', B, run.repo) : x.track /\ ~x.abandoned
              /\ B \in DOMAIN c.heads =>
                    \A n \in (DOMAIN c2.heads) \ (DOMAIN c.heads) : IsAbandonedName(n)
              /\ new # {} =>
                    /\ BranchRecords(db, B, run.repo) = {}
                    /\ Cardinality(new) = 1]_vars

\* The age of a Repository record exceeds the enabled threshold of d days
StaleRepository(x, d, t) == d >= 0 /\ x.last_seen_in_github + Days(d) < t

\* C31: when the stale-repository sweep of a run is over, every repository
\* whose last-seen age exceeded the enabled threshold at its start has no
\* working copy, no Repository record and no Branch record left.
C31_RepositoryReclaimed ==
    [][(CleanStart("repositories") /\ pc' = "idle") =>
          \A x \in db.repositories :
             StaleRepository(x, retention.repositories, now) =>
                /\ ~clones'[x.name].exists
                /\ \A y \in db'.repositories : y.name # x.name
                /\ \A b \in db'.branches : OwnerName(db', b) # x.name]_vars

\* The entries the branch query of a sweep returns from store d at time t
BranchQuery(kind, d, t) ==
    IF kind = "abandoned" THEN get_abandoned_branches_older_than(d, retention.abandoned, t)
    ELSE get_branches_older_than(d, retention.branches, t)

\* C32: a step of a branch sweep with an enabled threshold whose entry has a
\* local branch that is not checked out deletes that local branch and every
\* record of the entry, so that the query of the sweep no longer returns the
\* entry.
C32_BranchReclaimed ==
    [][SweepEntryStep({"abandoned", "branches"}) =>
          LET name == Head(run.todo)[1]
              repo == Head(run.todo)[2]
          IN  (/\ retention[run.kind] >= 0
               /\ clones[repo].exists
               /\ name \in DOMAIN clones[repo].heads
               /\ name # clones[repo].active) =>
                 /\ name \notin DOMAIN clones'[repo].heads
                 /\ \A b \in db'.branches : ~(b.name = name /\ OwnerName(db', b) = repo)
                 /\ ~InSeq(Head(run.todo), BranchQuery(run.kind, db', now))]_vars

\* The joined Branch records behind an entry of a branch query
RecordsOf(e) == {b \in JoinedBranches(db) : BranchEntity(b) = e}

\* C33: the entries a branch sweep starts with all have a record of its own
\* population (abandoned for the abandoned-branch sweep, not abandoned for the
\* stale-branch sweep) that is, for an enabled threshold, old enough by the
\* timestamp and the threshold of that sweep alone; and a step of a branch
\* sweep deletes no record and no local branch of the other population.
C33_SweepIndependence ==
    [][/\ \A kind \in {"abandoned", "branches"} :
             (CleanStart(kind) /\ pc' = "sweep" /\ run'.kind = kind) =>
                \A i \in 1..Len(run'.todo) :
                   \E b \in RecordsOf(run'.todo[i]) :
                      /\ b.abandoned <=> kind = "abandoned"
                      /\ retention[kind] >= 0 =>
                            (IF kind = "abandoned" THEN b.created_date
                             ELSE b.last_seen_in_github) + Days(retention[kind]) <= now
       /\ SweepEntryStep({"abandoned", "branches"}) =>
             /\ \A b \in Deleted(db.branches, db'.branches) :
                   b.abandoned <=> run.kind = "abandoned"
             /\ \A r \in Repos :
                   \A n \in (DOMAIN clones[r].heads) \ (DOMAIN clones'[r].heads) :
                      IsAbandonedName(n) <=> run.kind = "abandoned"]_vars

\* the abandoned-branch sweep, with a threshold other than that of the
\* stale-branch sweep, has deleted an abandoned branch and its record, and a
\* record that is not abandoned and as old is still there
C33_Witness ==
    /\ hist.last = "abandoned"
    /\ retention.abandoned >= 0
    /\ retention.abandoned # retention.branches
    /\ hist.arg[1] \notin DOMAIN clones[hist.arg[2]].heads
    /\ \A b \in db.branches : b.name # hist.arg[1]
    /\ \E b \in JoinedBranches(db) : ~b.abandoned /\ b.last_seen_in_github <= now

\* C34: a step of a sweep that processes one entry leaves the sweep running
\* with the entries after it (for an enabled threshold), whether or not the
\* entry could be deleted and whether or not its working copy is there.
C34_SweepEntryIsolation ==
    [][(/\ pc = "sweep"
        /\ run.todo # <<>>
        /\ run' # run
        /\ retention[run.kind] >= 0
        /\ hist'.last = run.kind)
          => /\ pc' = "sweep"
             /\ run'.kind = run.kind
             /\ run'.todo = Tail(run.todo)]_vars

\* C35: a clone that succeeds while tracking is enabled adds exactly one
\* Repository record, of the cloned repository, with created and last-seen
\* both the time of the clone, and changes no other record; a clone that fails
\* leaves the store and the working copies as they are and the run goes on.
C35_CloneRecorded ==
    [][\A r \in UpdatedRepos :
          /\ (Clone(r, TRUE) /\ tracking) =>
                /\ clones'[r].exists
                /\ \E x \in db'.repositories :
                      /\ Inserted(db.repositories, db'.repositories) = {x}
                      /\ x.name = r
                      /\ x.created_date = now
                      /\ x.last_seen_in_github = now
                /\ db.repositories \subseteq db'.repositories
                /\ db'.branches = db.branches
                /\ pc' = "idle"
          /\ (Clone(r, FALSE) /\ hist'.remote = "clone") =>
                /\ db' = db
                /\ clones' = clones
                /\ pc' = "idle"]_vars

\* a clone made after the clock has moved is recorded with both timestamps at
\* the time of the clone
C35_Witness ==
    /\ hist.last = "clone"
    /\ now > 0
    /\ \E x \in db.repositories :
          x.name = GitRepo /\ x.created_date = now /\ x.last_seen_in_github = now

\* A step that starts the update of a repository: one pass of the loop of
\* backup_organizations
UpdateStep ==
    \E r \in UpdatedRepos :
       \/ UpdateProbeFailed(r)
       \/ \E ok \in BOOLEAN : Clone(r, ok)
       \/ \E fetched \in BOOLEAN : UpdateLocalStart(r, fetched)

\* C36: every update of a repository starts with the rate-limit gate, and the
\* gate sleeps exactly when the number of requests remaining is 0.
C36_RateLimitGate ==
    [][UpdateStep =>
          /\ hist'.gate \in RateLimits
          /\ hist'.waited <=> hist'.gate[1] = 0]_vars

\* C37: origin/HEAD is never taken for a branch: it is not among the refs the
\* loop of update_local processes, its commit is not counted among the tips
\* of the remote branches (these are the commits of all other refs), no local
\* branch is named HEAD and no Branch record is named HEAD.
C37_HeadNotABranch ==
    /\ pc = "branches" => ~InSeq(HeadRef, run.todo)
    /\ \A r \in Repos :
          /\ <<"HEAD">> \notin DOMAIN clones[r].heads
          /\ clones[r].exists =>
                /\ ~InSeq(HeadRef, get_remote_branches(clones[r]))
                /\ get_remote_branches_commit_ids(clones[r])
                      = {clones[r].refs[x] : x \in (DOMAIN clones[r].refs) \ {HeadRef}}
    /\ \A b \in db.branches : b.name # <<"HEAD">>

\* an update of a clone that has origin/HEAD has processed its branches and
\* recorded them
C37_Witness ==
    /\ hist.last = "update_local"
    /\ HeadRef \in DOMAIN clones[GitRepo].refs
    /\ \E b \in db.branches : b.name = <<"dev">>
    /\ \E b \in db.branches : b.name = <<"main">>

RemoteBranchOf(ref) == SubSeq(ref, 3, Len(ref))

\* C39: an iteration of update_local that ends without an exception leaves,
\* for the remote branch of its ref, a local branch of the same full name whose
\* upstream is that ref, and the ref reset_branch takes for the branch name of
\* the iteration is that ref.
C39_NamePreserving ==
    [][(IterationStep /\ pc' = "branches") =>
          LET ref == Head(run.todo)
              B == RemoteBranchOf(ref)
              c == clones'[run.repo]
          IN  /\ B \in DOMAIN c.heads
              /\ c.upstream[B] = ref
              /\ RefToReset(c, RSplitLast(ref)) = ref]_vars

====
